---- MODULE Spec2Model ----
(***************************************************************************)
(* WhatsappClient (response.go, models.go): payload construction and       *)
(* dispatch for text, interactive, location, audio and image messages,     *)
(* the media upload step and the media resolver.                           *)
(*                                                                         *)
(* A JSON object is a function from key names to values; a key dropped by  *)
(* `omitempty` is a key outside the function's DOMAIN.  A response body is *)
(* its raw text; decoding is a table over the bodies the model draws from. *)
(***************************************************************************)
EXTENDS Integers, Sequences, FiniteSets, TLC

\* ------------------------------------------------------------------ bounds
MaxButtons == 3
MaxItems == 1

\* ------------------------------------------------------- program constants
StatusOK == 200
StatusAccepted == 202
StatusRedirectFloor == 300

\* ------------------------------------------------------------ input domains
Recipients == {"77010000001", "77010000002"}
Texts == {"hello", "menu"}
MenuTypes == {"text", "button", "location_request_message", "cta_url"}
ButtonTitles == {"Choose"}
Floats == {"43.25", "NaN"}
Names == {"", "Office"}
Addresses == {"", "Main St 1"}
FilePaths == {"/tmp/voice.ogg", "/tmp/missing.ogg", "/tmp/broken.ogg"}
MediaIDs == {"m1", "m\n1"}
MediaUrls == {"https://cdn.example/m1", "://bad"}
ApiURLs == {"https://graph.example/v17.0/1/messages", "://bad"}

\* models.go ButtonItem: two link-bearing and two link-less buttons
ButtonItems ==
  { [Text |-> "Site", ID |-> "u1", Link |-> "https://a.example", Type |-> ""],
    [Text |-> "Shop", ID |-> "u2", Link |-> "https://b.example", Type |-> ""],
    [Text |-> "Yes",  ID |-> "r1", Link |-> "", Type |-> "reply"],
    [Text |-> "No",   ID |-> "r2", Link |-> "", Type |-> "reply"] }

\* models.go ListItem
ListItems ==
  { [ID |-> "i1", Title |-> "First", Description |-> ""],
    [ID |-> "i2", Title |-> "Second", Description |-> "more"] }

SeqsUpTo(S, n) == UNION { [1..k -> S] : k \in 0..n }

\* --------------------------------------------------------- platform answers
BodyAccepted == "{\"messaging_product\":\"whatsapp\",\"contacts\":[{\"input\":\"7701\",\"wa_id\":\"7701\"}],\"messages\":[{\"id\":\"wamid.1\"}]}"
BodyId1 == "{\"id\":\"m1\"}"
BodyId2 == "{\"id\":\"m2\"}"
BodyIdNum == "{\"id\":5}"
BodyEmptyObject == "{}"
BodyError == "{\"error\":\"invalid recipient\"}"
BodyHtml == "<html>Bad Gateway</html>"
BodyNone == ""

Bodies == {BodyAccepted, BodyId1, BodyId2, BodyIdNum, BodyEmptyObject, BodyError, BodyHtml, BodyNone}
Statuses == {200, 201, 202, 204, 302, 400, 500}

\* net/http: a 204 response never carries a body
BodyAllowedForStatus(status, body) == status = 204 => body = BodyNone

\* what client.Do hands back: a transport failure, or a status line with a
\* body whose read may fail half way (readOK = FALSE)
NoResponse == [kind |-> "none", status |-> 0, body |-> BodyNone, readOK |-> TRUE]
TransportFailure == [kind |-> "neterr", status |-> 0, body |-> BodyNone, readOK |-> TRUE]
Responses ==
  {TransportFailure}
  \cup { r \in [kind : {"http"}, status : Statuses, body : Bodies, readOK : {TRUE}] :
           BodyAllowedForStatus(r.status, r.body) }
  \cup { [kind |-> "http", status |-> s, body |-> BodyNone, readOK |-> FALSE] : s \in {200, 400} }

\* ------------------------------------------------------------ encoding/json
\* json.Valid on the bodies above
IsValidJSON(body) == body \in {BodyAccepted, BodyId1, BodyId2, BodyIdNum, BodyEmptyObject, BodyError}

\* response.go MessageResponse, zero value and the value BodyAccepted decodes to
ZeroMessageResponse == [messaging_product |-> "", contacts |-> <<>>, messages |-> <<>>]
AcceptedMessageResponse ==
  [messaging_product |-> "whatsapp",
   contacts |-> << [input |-> "7701", wa_id |-> "7701"] >>,
   messages |-> << [id |-> "wamid.1"] >>]

\* json.Unmarshal / Decoder.Decode into MessageResponse: unknown keys are
\* ignored, missing keys leave the zero value, malformed text is an error
DecodeMessageResponse(body) ==
  IF ~IsValidJSON(body) THEN [ok |-> FALSE, value |-> ZeroMessageResponse]
  ELSE IF body = BodyAccepted THEN [ok |-> TRUE, value |-> AcceptedMessageResponse]
  ELSE [ok |-> TRUE, value |-> ZeroMessageResponse]

\* Decoder.Decode into struct{ID string `json:"id"`}: a missing id leaves "",
\* a number for id is an UnmarshalTypeError
DecodeUploadResponse(body) ==
  IF ~IsValidJSON(body) \/ body = BodyIdNum THEN [ok |-> FALSE, ID |-> ""]
  ELSE IF body = BodyId1 THEN [ok |-> TRUE, ID |-> "m1"]
  ELSE IF body = BodyId2 THEN [ok |-> TRUE, ID |-> "m2"]
  ELSE [ok |-> TRUE, ID |-> ""]

\* json.Marshal of a float64: NaN and the infinities are UnsupportedValueError
FloatMarshals(f) == f \notin {"NaN", "+Inf", "-Inf"}

\* http.NewRequest fails when url.Parse rejects the URL
URLParses(url) == url # "://bad"

\* os.Open / io.Copy on the local file
FileOpens(path) == path # "/tmp/missing.ogg"
FileReads(path) == path # "/tmp/broken.ogg"

\* ------------------------------------------------------------------- errors
NilError == [isNil |-> TRUE, msg |-> "", hasStatus |-> FALSE, status |-> 0, hasBody |-> FALSE, body |-> ""]
\* fmt.Errorf without a status or a body in the text
Error(msg) == [isNil |-> FALSE, msg |-> msg, hasStatus |-> FALSE, status |-> 0, hasBody |-> FALSE, body |-> ""]
\* fmt.Errorf("... %d", resp.StatusCode)
StatusError(msg, status) == [isNil |-> FALSE, msg |-> msg, hasStatus |-> TRUE, status |-> status, hasBody |-> FALSE, body |-> ""]
\* fmt.Errorf("... %d ... %s", resp.StatusCode, body)
StatusBodyError(msg, status, body) == [isNil |-> FALSE, msg |-> msg, hasStatus |-> TRUE, status |-> status, hasBody |-> TRUE, body |-> body]

\* io.ReadAll(resp.Body): what was read, and whether the read failed
ReadAll(resp) == IF resp.readOK THEN resp.body ELSE BodyNone

\* ----------------------------------------------------------------- payloads
\* a text payload built on the shared WhatsAppMessage struct, whose
\* interactive field has no omitempty
TextMessageWithNullInteractive(to, body) ==
  [messaging_product |-> "whatsapp", recipient_type |-> "individual",
   to |-> to, type |-> "text", text |-> [body |-> body], interactive |-> "null"]

\* SendMessage: the map literal handed to json.Marshal
TextMessage(to, body) ==
  [messaging_product |-> "whatsapp", recipient_type |-> "individual",
   to |-> to, type |-> "text", text |-> [body |-> body]]

\* json.Marshal(ListItem): description is omitempty
MarshalListItem(item) ==
  [id |-> item.ID, title |-> item.Title]
  @@ (IF item.Description # "" THEN [description |-> item.Description] ELSE <<>>)

\* json.Marshal(ListInteractive) for the single untitled section
\* SendInteractiveList builds (title is omitempty)
MarshalListInteractive(bodyText, buttonTitle, items) ==
  [type |-> "list", body |-> [text |-> bodyText],
   action |-> [button |-> buttonTitle,
               sections |-> << [rows |-> [i \in 1..Len(items) |-> MarshalListItem(items[i])]] >>]]

\* json.Marshal(WhatsAppMessage)
MarshalWhatsAppMessage(to, interactive) ==
  [messaging_product |-> "whatsapp", recipient_type |-> "individual",
   to |-> to, type |-> "interactive", interactive |-> interactive]

\* ButtonAction{}: empty name, nil parameters, nil buttons
NilParameters == [isNil |-> TRUE, DisplayText |-> "", Url |-> ""]
EmptyButtonAction == [Name |-> "", Parameters |-> NilParameters, Buttons |-> <<>>]

\* the anonymous {Type, Reply} struct built for a button without a link
BackBtn(btn) == [Type |-> btn.Type, Reply |-> [ID |-> btn.ID, Title |-> btn.Text, Url |-> "", Text |-> ""]]

\* a loop body in which the first link-bearing button wins
ButtonStepFirstLinkWins(action, btn) ==
  IF btn.Link # ""
  THEN IF action.Parameters.isNil
       THEN [action EXCEPT !.Name = "cta_url",
                           !.Parameters = [isNil |-> FALSE, DisplayText |-> btn.Text, Url |-> btn.Link]]
       ELSE action
  ELSE [action EXCEPT !.Buttons = Append(@, BackBtn(btn))]

\* one iteration of `for _, btn := range buttons`
ButtonStep(action, btn) ==
  IF btn.Link # ""
  THEN [action EXCEPT !.Name = "cta_url",
                      !.Parameters = [isNil |-> FALSE, DisplayText |-> btn.Text, Url |-> btn.Link]]
  ELSE [action EXCEPT !.Buttons = Append(@, BackBtn(btn))]

RECURSIVE ButtonLoop(_, _)
ButtonLoop(action, buttons) ==
  IF buttons = <<>> THEN action
  ELSE ButtonLoop(ButtonStep(action, Head(buttons)), Tail(buttons))

\* SendInteractiveButtons, lines 143-173: the action a non-"text" call builds
BuildButtonAction(menuType, buttons) ==
  ButtonLoop(IF menuType = "location_request_message"
             THEN [EmptyButtonAction EXCEPT !.Name = "send_location"]
             ELSE EmptyButtonAction,
             buttons)

\* json.Marshal(ButtonReply): url and text are omitempty
MarshalButtonReply(r) ==
  [id |-> r.ID, title |-> r.Title]
  @@ (IF r.Url # "" THEN [url |-> r.Url] ELSE <<>>)
  @@ (IF r.Text # "" THEN [text |-> r.Text] ELSE <<>>)

MarshalBackBtn(b) == [type |-> b.Type, reply |-> MarshalButtonReply(b.Reply)]

\* json.Marshal(ButtonAction): name, parameters and buttons are all omitempty
MarshalButtonAction(action) ==
  (IF action.Name # "" THEN [name |-> action.Name] ELSE <<>>)
  @@ (IF ~action.Parameters.isNil
      THEN [parameters |-> [display_text |-> action.Parameters.DisplayText, url |-> action.Parameters.Url]]
      ELSE <<>>)
  @@ (IF Len(action.Buttons) > 0
      THEN [buttons |-> [i \in 1..Len(action.Buttons) |-> MarshalBackBtn(action.Buttons[i])]]
      ELSE <<>>)

\* json.Marshal(ButtonsInteractive): omitempty never drops a struct, so the
\* action key is always present
MarshalButtonsInteractive(menuType, bodyText, action) ==
  [type |-> menuType, body |-> [text |-> bodyText], action |-> MarshalButtonAction(action)]

\* an audio payload that forgets to set message.Audio.ID
AudioMessageWithoutId(to, mediaID) ==
  [messaging_product |-> "whatsapp", to |-> to, type |-> "audio", audio |-> [id |-> ""]]

\* json.Marshal(AudioMessage) / json.Marshal(ImageMessage)
AudioMessage(to, mediaID) ==
  [messaging_product |-> "whatsapp", to |-> to, type |-> "audio", audio |-> [id |-> mediaID]]
ImageMessage(to, mediaID) ==
  [messaging_product |-> "whatsapp", to |-> to, type |-> "image", image |-> [id |-> mediaID]]

\* a location payload whose name tag lacks omitempty
LocationMessageNameAlways(to, latitude, longitude, name, address) ==
  [messaging_product |-> "whatsapp", to |-> to, type |-> "location",
   location |-> [latitude |-> latitude, longitude |-> longitude, name |-> name]
                @@ (IF address # "" THEN [address |-> address] ELSE <<>>)]

\* json.Marshal(LocationMessage): name and address are omitempty
LocationMessage(to, latitude, longitude, name, address) ==
  [messaging_product |-> "whatsapp", to |-> to, type |-> "location",
   location |-> [latitude |-> latitude, longitude |-> longitude]
                @@ (IF name # "" THEN [name |-> name] ELSE <<>>)
                @@ (IF address # "" THEN [address |-> address] ELSE <<>>)]

\* the multipart form uploadMedia writes
UploadForm(filePath, mediaType) ==
  [file |-> filePath, type |-> mediaType, messaging_product |-> "whatsapp"]

\* GetMediaURL: fmt.Sprintf("%s/%s", "https://graph.facebook.com/v17.0", mediaID);
\* url.Parse rejects a control character in the ID
MediaEndpoint(mediaID) == [base |-> "https://graph.facebook.com/v17.0", id |-> mediaID]
MediaEndpointParses(mediaID) == mediaID # "m\n1"

\* -------------------------------------------------------------------- state
VARIABLES
  Ctx, apiURL, accessToken, client,  \* WhatsappClient fields
  op,        \* the exported method being executed
  args,      \* its arguments
  pc,        \* "idle", the function blocked in client.Do, "done" or "panic"
  requests,  \* the HTTP requests this call has handed to client.Do, in order
  resp,      \* what the last client.Do returned
  mediaId,   \* local mediaId of SendAudioToWhatsApp / SendImageToWhatsApp
  fileOpen,  \* uploadMedia holds the local file open
  result,    \* what the exported method returned
  parked     \* the frame of a second goroutine calling the same client

config == <<Ctx, apiURL, accessToken, client>>
vars == <<Ctx, apiURL, accessToken, client, op, args, pc, requests, resp, mediaId, fileOpen, result, parked>>

NilPtr == [isNil |-> TRUE, value |-> ZeroMessageResponse]
Ptr(v) == [isNil |-> FALSE, value |-> v]
NilMedia == [isNil |-> TRUE, ID |-> ""]
\* the zero return values: nil pointer, "", nil bytes, nil error
NoResult == [ptr |-> NilPtr, id |-> "", bytes |-> BodyNone, hasBytes |-> FALSE, media |-> NilMedia, err |-> NilError]
Fail(err) == [NoResult EXCEPT !.err = err]

NoArgs ==
  [to |-> "", body |-> "", menuType |-> "", buttons |-> <<>>, buttonTitle |-> "", items |-> <<>>,
   latitude |-> "", longitude |-> "", name |-> "", address |-> "",
   filePath |-> "", mediaID |-> "", url |-> ""]

\* http.NewRequest plus the headers every function sets
Request(method, url, contentType, payload) ==
  [method |-> method, url |-> url, contentType |-> contentType,
   authorization |-> [scheme |-> "Bearer", token |-> accessToken], payload |-> payload]

\* the locals of one call: a goroutine's frame
Frame ==
  [op |-> op, args |-> args, pc |-> pc, requests |-> requests, resp |-> resp,
   mediaId |-> mediaId, fileOpen |-> fileOpen, result |-> result]
IdleFrame ==
  [op |-> "none", args |-> NoArgs, pc |-> "idle", requests |-> <<>>, resp |-> NoResponse,
   mediaId |-> "", fileOpen |-> FALSE, result |-> NoResult]

\* NewWhatsappClient
Init ==
  /\ Ctx = "ctx"
  /\ apiURL \in ApiURLs
  /\ accessToken = "token"
  /\ client = "httpClient"
  /\ op = "none"
  /\ args = NoArgs
  /\ pc = "idle"
  /\ requests = <<>>
  /\ resp = NoResponse
  /\ mediaId = ""
  /\ fileOpen = FALSE
  /\ result = NoResult
  /\ parked = IdleFrame

\* the caller's goroutine is between calls
Callable == pc = "idle"

\* entry into an exported method: fresh locals
Enter(name, a) ==
  /\ Callable
  /\ op' = name
  /\ args' = a
  /\ resp' = NoResponse
  /\ mediaId' = ""
  /\ UNCHANGED <<config, parked>>

\* a client.Do wrapped in a retry that sends the request a second time
DoWithRetry(fn, reqs) ==
  pc' = fn /\ requests' = reqs \o << reqs[Len(reqs)] >> /\ result' = NoResult

\* the function hands req to client.Do and blocks
Do(fn, reqs) == pc' = fn /\ requests' = reqs /\ result' = NoResult
\* the exported method returns
Return(reqs, res) == pc' = "done" /\ requests' = reqs /\ result' = res
\* nil pointer dereference: the goroutine panics
Panic(reqs) == pc' = "panic" /\ requests' = reqs /\ result' = NoResult

\* ------------------------------------------------------------- SendMessage
\* a SendMessage that builds its payload in a buffer shared by all calls on
\* the client: the recipient of a call still in flight leaks into this one
SendMessageCallSharedBuffer(to, body) ==
  IF ~URLParses(apiURL)
  THEN Return(<<>>, Fail(Error("error creating request")))
  ELSE Do("SendMessage",
          << Request("POST", apiURL, "application/json",
                     TextMessage(IF parked.pc \notin {"idle", "done"} THEN parked.args.to ELSE to, body)) >>)

\* lines 63-92, up to client.Do
SendMessageCall(to, body) ==
  IF ~URLParses(apiURL)
  THEN Return(<<>>, Fail(Error("error creating request")))
  ELSE Do("SendMessage", << Request("POST", apiURL, "application/json", TextMessage(to, body)) >>)

\* lines 88-110, from the return of client.Do
SendMessageResult(r) ==
  IF r.kind = "neterr" THEN Fail(Error("error sending request"))
  ELSE IF ~r.readOK THEN Fail(Error("error reading response body"))
  ELSE IF ~DecodeMessageResponse(r.body).ok THEN Fail(Error("error unmarshaling JSON"))
  ELSE IF r.status # StatusOK /\ r.status # StatusAccepted
       THEN Fail(StatusBodyError("failed to send message", r.status, r.body))
  ELSE [NoResult EXCEPT !.ptr = Ptr(DecodeMessageResponse(r.body).value)]

SendMessage ==
  /\ Callable
  /\ \E to \in Recipients, body \in Texts :
    /\ Enter("SendMessage", [NoArgs EXCEPT !.to = to, !.body = body])
    /\ SendMessageCall(to, body)
    /\ UNCHANGED fileOpen

SendMessageReturn ==
  /\ pc = "SendMessage"
  /\ \E r \in Responses :
       /\ resp' = r
       /\ Return(requests, SendMessageResult(r))
  /\ UNCHANGED <<config, parked, op, args, mediaId, fileOpen>>

\* --------------------------------------------------------- sendListMessage
\* lines 194-214: the errors of json.Marshal and http.NewRequest are only
\* printed; after a failed NewRequest req is nil and req.Header.Set panics
sendListMessageCall(message) ==
  IF ~URLParses(apiURL)
  THEN Panic(<<>>)
  ELSE Do("sendListMessage", << Request("POST", apiURL, "application/json", message) >>)

\* lines 214-230: no status check, the decode error is only printed
sendListMessageResult(r) ==
  IF r.kind = "neterr" THEN Fail(Error("transport"))
  ELSE IF r.readOK /\ DecodeMessageResponse(r.body).ok
       THEN [NoResult EXCEPT !.ptr = Ptr(DecodeMessageResponse(r.body).value)]
  ELSE [NoResult EXCEPT !.ptr = Ptr(ZeroMessageResponse)]

SendInteractiveList ==
  /\ Callable
  /\ \E to \in Recipients, bodyText \in Texts, buttonTitle \in ButtonTitles, items \in SeqsUpTo(ListItems, MaxItems) :
    /\ Enter("SendInteractiveList",
             [NoArgs EXCEPT !.to = to, !.body = bodyText, !.buttonTitle = buttonTitle, !.items = items])
    /\ sendListMessageCall(MarshalWhatsAppMessage(to, MarshalListInteractive(bodyText, buttonTitle, items)))
    /\ UNCHANGED fileOpen

\* SendInteractiveButtons without the early return for "text"
SendInteractiveButtonsCallNoTextBranch(to, menuType, bodyText, buttons) ==
  sendListMessageCall(
    MarshalWhatsAppMessage(to,
      MarshalButtonsInteractive(menuType, bodyText, BuildButtonAction(menuType, buttons))))

\* lines 142-192
SendInteractiveButtonsCall(to, menuType, bodyText, buttons) ==
  IF menuType = "text"
  THEN SendMessageCall(to, bodyText)
  ELSE sendListMessageCall(
         MarshalWhatsAppMessage(to,
           MarshalButtonsInteractive(menuType, bodyText, BuildButtonAction(menuType, buttons))))

SendInteractiveButtons ==
  /\ Callable
  /\ \E to \in Recipients, menuType \in MenuTypes, bodyText \in Texts, buttons \in SeqsUpTo(ButtonItems, MaxButtons) :
    /\ Enter("SendInteractiveButtons",
             [NoArgs EXCEPT !.to = to, !.menuType = menuType, !.body = bodyText, !.buttons = buttons])
    /\ SendInteractiveButtonsCall(to, menuType, bodyText, buttons)
    /\ UNCHANGED fileOpen

sendListMessageReturn ==
  /\ pc = "sendListMessage"
  /\ \E r \in Responses :
       /\ resp' = r
       /\ Return(requests, sendListMessageResult(r))
  /\ UNCHANGED <<config, parked, op, args, mediaId, fileOpen>>

\* ---------------------------------------------------- SendWhatsAppLocation
\* lines 395-420, up to client.Do
SendWhatsAppLocationCall(to, latitude, longitude, name, address) ==
  IF ~(FloatMarshals(latitude) /\ FloatMarshals(longitude))
  THEN Return(<<>>, Fail(Error("failed to marshal JSON")))
  ELSE IF ~URLParses(apiURL)
  THEN Return(<<>>, Fail(Error("failed to create HTTP request")))
  ELSE Do("SendWhatsAppLocation",
          << Request("POST", apiURL, "application/json",
                     LocationMessage(to, latitude, longitude, name, address)) >>)

\* lines 420-440, from the return of client.Do
SendWhatsAppLocationResult(r) ==
  IF r.kind = "neterr" THEN Fail(Error("failed to send HTTP request"))
  ELSE IF r.status >= StatusRedirectFloor
       THEN Fail(StatusBodyError("error: received status code", r.status, ReadAll(r)))
  ELSE IF ~(r.readOK /\ DecodeMessageResponse(r.body).ok) THEN Fail(Error("decode"))
  ELSE [NoResult EXCEPT !.ptr = Ptr(DecodeMessageResponse(r.body).value)]

SendWhatsAppLocation ==
  /\ Callable
  /\ \E to \in Recipients, latitude \in Floats, longitude \in Floats, name \in Names, address \in Addresses :
    /\ Enter("SendWhatsAppLocation",
             [NoArgs EXCEPT !.to = to, !.latitude = latitude, !.longitude = longitude,
                            !.name = name, !.address = address])
    /\ SendWhatsAppLocationCall(to, latitude, longitude, name, address)
    /\ UNCHANGED fileOpen

SendWhatsAppLocationReturn ==
  /\ pc = "SendWhatsAppLocation"
  /\ \E r \in Responses :
       /\ resp' = r
       /\ Return(requests, SendWhatsAppLocationResult(r))
  /\ UNCHANGED <<config, parked, op, args, mediaId, fileOpen>>

\* -------------------------------------------------------------- uploadMedia
\* an upload without the deferred Close: the early returns leak the handle
uploadMediaCallLeak(filePath, mediaType) ==
  IF ~FileOpens(filePath)
  THEN fileOpen' = FALSE /\ Return(<<>>, Fail(Error("failed to open file")))
  ELSE IF ~FileReads(filePath)
  THEN fileOpen' = TRUE /\ Return(<<>>, Fail(Error("failed to copy file")))
  ELSE IF ~URLParses(apiURL)
  THEN fileOpen' = TRUE /\ Return(<<>>, Fail(Error("failed to create request")))
  ELSE fileOpen' = TRUE
       /\ Do("uploadMedia",
             << Request("POST", apiURL, "multipart/form-data", UploadForm(filePath, mediaType)) >>)

\* lines 259-294, up to client.Do; `defer file.Close()` runs when uploadMedia
\* returns, so the file stays open while the request is in flight
uploadMediaCall(filePath, mediaType) ==
  IF ~FileOpens(filePath)
  THEN fileOpen' = FALSE /\ Return(<<>>, Fail(Error("failed to open file")))
  ELSE IF ~FileReads(filePath)
  THEN fileOpen' = FALSE /\ Return(<<>>, Fail(Error("failed to copy file")))
  ELSE IF ~URLParses(apiURL)
  THEN fileOpen' = FALSE /\ Return(<<>>, Fail(Error("failed to create request")))
  ELSE fileOpen' = TRUE
       /\ Do("uploadMedia",
             << Request("POST", apiURL, "multipart/form-data", UploadForm(filePath, mediaType)) >>)

\* lines 294-313, from the return of client.Do: the (string, error) pair
uploadMediaResult(r) ==
  IF r.kind = "neterr" THEN [id |-> "", err |-> Error("upload failed")]
  ELSE IF r.status >= StatusRedirectFloor
       THEN [id |-> "", err |-> StatusBodyError("upload failed with status", r.status, ReadAll(r))]
  ELSE IF ~(r.readOK /\ DecodeUploadResponse(r.body).ok)
       THEN [id |-> "", err |-> Error("failed to parse response")]
  ELSE [id |-> DecodeUploadResponse(r.body).ID, err |-> NilError]

\* lines 316-339, up to client.Do
sendWhatsAppMediaCall(to, mediaID) ==
  IF ~URLParses(apiURL)
  THEN Return(requests, Fail(Error("failed to create HTTP request")))
  ELSE Do("sendWhatsAppMedia",
          Append(requests, Request("POST", apiURL, "application/json", AudioMessage(to, mediaID))))

\* lines 339-355: the error of sendWhatsAppMedia
sendWhatsAppMediaResult(r) ==
  IF r.kind = "neterr" THEN Error("failed to send HTTP request")
  ELSE IF r.status >= StatusRedirectFloor THEN StatusError("error: received status code", r.status)
  ELSE IF ~(r.readOK /\ DecodeMessageResponse(r.body).ok) THEN Error("decode")
  ELSE NilError

\* lines 358-380, up to client.Do
sendWhatsAppImageCall(to, mediaID) ==
  IF ~URLParses(apiURL)
  THEN Return(requests, Fail(Error("failed to create HTTP request")))
  ELSE Do("sendWhatsAppImage",
          Append(requests, Request("POST", apiURL, "application/json", ImageMessage(to, mediaID))))

\* lines 380-392: the error of sendWhatsAppImage
sendWhatsAppImageResult(r) ==
  IF r.kind = "neterr" THEN Error("failed to send HTTP request")
  ELSE IF r.status >= StatusRedirectFloor
       THEN StatusBodyError("error: received status code", r.status, ReadAll(r))
  ELSE NilError

\* lines 233-237
SendAudioToWhatsApp ==
  /\ Callable
  /\ \E to \in Recipients, filePath \in FilePaths :
    /\ Enter("SendAudioToWhatsApp", [NoArgs EXCEPT !.to = to, !.filePath = filePath])
    /\ uploadMediaCall(filePath, "audio/ogg")

\* lines 246-250
SendImageToWhatsApp ==
  /\ Callable
  /\ \E to \in Recipients, filePath \in FilePaths :
    /\ Enter("SendImageToWhatsApp", [NoArgs EXCEPT !.to = to, !.filePath = filePath])
    /\ uploadMediaCall(filePath, "image/jpeg")

\* uploadMedia returns into SendAudioToWhatsApp (lines 234-239) or
\* SendImageToWhatsApp (lines 247-252): an error ends the call, an ID starts
\* the send
uploadMediaReturn ==
  /\ pc = "uploadMedia"
  /\ fileOpen' = FALSE
  /\ \E r \in Responses :
       /\ resp' = r
       /\ IF ~uploadMediaResult(r).err.isNil
          THEN /\ mediaId' = mediaId
               /\ Return(requests, Fail(uploadMediaResult(r).err))
          ELSE /\ mediaId' = uploadMediaResult(r).id
               /\ IF op = "SendAudioToWhatsApp"
                  THEN sendWhatsAppMediaCall(args.to, uploadMediaResult(r).id)
                  ELSE sendWhatsAppImageCall(args.to, uploadMediaResult(r).id)
  /\ UNCHANGED <<config, parked, op, args>>

\* a return that hands the uploaded ID back together with the send error
MediaSendResultKeepsId(id, err) ==
  IF ~err.isNil THEN [NoResult EXCEPT !.id = id, !.err = err] ELSE [NoResult EXCEPT !.id = id]

\* The (string, error) pair of lines 239-243 and 252-256
MediaSendResult(id, err) ==
  IF ~err.isNil THEN Fail(err) ELSE [NoResult EXCEPT !.id = id]

sendWhatsAppMediaReturn ==
  /\ pc = "sendWhatsAppMedia"
  /\ \E r \in Responses :
       /\ resp' = r
       /\ Return(requests, MediaSendResult(mediaId, sendWhatsAppMediaResult(r)))
  /\ UNCHANGED <<config, parked, op, args, mediaId, fileOpen>>

sendWhatsAppImageReturn ==
  /\ pc = "sendWhatsAppImage"
  /\ \E r \in Responses :
       /\ resp' = r
       /\ Return(requests, MediaSendResult(mediaId, sendWhatsAppImageResult(r)))
  /\ UNCHANGED <<config, parked, op, args, mediaId, fileOpen>>

\* ----------------------------------------------------------- media resolver
\* Decoder.Decode into MediaUrl
DecodeMediaUrl(body) ==
  IF ~IsValidJSON(body) \/ body = BodyIdNum THEN [ok |-> FALSE, value |-> NilMedia]
  ELSE [ok |-> TRUE, value |-> [isNil |-> FALSE, ID |-> DecodeUploadResponse(body).ID]]

\* lines 442-451
GetMediaURL ==
  /\ Callable
  /\ \E mediaID \in MediaIDs :
    /\ Enter("GetMediaURL", [NoArgs EXCEPT !.mediaID = mediaID])
    /\ IF ~MediaEndpointParses(mediaID)
       THEN Return(<<>>, Fail(Error("newrequest")))
       ELSE Do("GetMediaURL", << Request("GET", MediaEndpoint(mediaID), "", <<>>) >>)
    /\ UNCHANGED fileOpen

\* lines 451-462: no status check
GetMediaURLResult(r) ==
  IF r.kind = "neterr" THEN Fail(Error("transport"))
  ELSE IF ~(r.readOK /\ DecodeMediaUrl(r.body).ok) THEN Fail(Error("decode"))
  ELSE [NoResult EXCEPT !.media = DecodeMediaUrl(r.body).value]

GetMediaURLReturn ==
  /\ pc = "GetMediaURL"
  /\ \E r \in Responses :
       /\ resp' = r
       /\ Return(requests, GetMediaURLResult(r))
  /\ UNCHANGED <<config, parked, op, args, mediaId, fileOpen>>

\* lines 465-472
DownloadMedia ==
  /\ Callable
  /\ \E mediaUrl \in MediaUrls :
    /\ Enter("DownloadMedia", [NoArgs EXCEPT !.url = mediaUrl])
    /\ IF ~URLParses(mediaUrl)
       THEN Return(<<>>, Fail(Error("newrequest")))
       ELSE Do("DownloadMedia", << Request("GET", mediaUrl, "", <<>>) >>)
    /\ UNCHANGED fileOpen

\* a download that rejects status >= 300 the way the send functions do
DownloadMediaResultChecksStatus(r) ==
  IF r.kind = "neterr" THEN Fail(Error("transport"))
  ELSE IF r.status >= StatusRedirectFloor THEN Fail(StatusError("status", r.status))
  ELSE IF ~r.readOK THEN Fail(Error("read"))
  ELSE [NoResult EXCEPT !.bytes = r.body, !.hasBytes = TRUE]

\* lines 472-483: no status check
DownloadMediaResult(r) ==
  IF r.kind = "neterr" THEN Fail(Error("transport"))
  ELSE IF ~r.readOK THEN Fail(Error("read"))
  ELSE [NoResult EXCEPT !.bytes = r.body, !.hasBytes = TRUE]

DownloadMediaReturn ==
  /\ pc = "DownloadMedia"
  /\ \E r \in Responses :
       /\ resp' = r
       /\ Return(requests, DownloadMediaResult(r))
  /\ UNCHANGED <<config, parked, op, args, mediaId, fileOpen>>

\* the caller has taken the returned values and is free to call again; the
\* client keeps nothing of the finished call
CallerContinues ==
  /\ pc = "done"
  /\ pc' = "idle"
  /\ op' = "none"
  /\ args' = NoArgs
  /\ requests' = <<>>
  /\ resp' = NoResponse
  /\ mediaId' = ""
  /\ result' = NoResult
  /\ UNCHANGED <<config, parked, fileOpen>>

\* ------------------------------------------------------------ specification
Next ==
  \/ SendMessage
  \/ SendMessageReturn
  \/ SendInteractiveList
  \/ SendInteractiveButtons
  \/ sendListMessageReturn
  \/ SendWhatsAppLocation
  \/ SendWhatsAppLocationReturn
  \/ SendAudioToWhatsApp
  \/ SendImageToWhatsApp
  \/ uploadMediaReturn
  \/ sendWhatsAppMediaReturn
  \/ sendWhatsAppImageReturn
  \/ GetMediaURL
  \/ GetMediaURLReturn
  \/ DownloadMedia
  \/ DownloadMediaReturn
  \/ CallerContinues

Spec == Init /\ [][Next]_vars

\* ------------------------------------------------------ concurrent callers
\* The scheduler runs the other goroutine: the frames trade places, the
\* client's fields are shared.  A panic ends the process.
Switch ==
  /\ pc # "panic"
  /\ parked # Frame
  /\ parked' = Frame
  /\ op' = parked.op
  /\ args' = parked.args
  /\ pc' = parked.pc
  /\ requests' = parked.requests
  /\ resp' = parked.resp
  /\ mediaId' = parked.mediaId
  /\ fileOpen' = parked.fileOpen
  /\ result' = parked.result
  /\ UNCHANGED config

\* the calls and answers the two-goroutine runs draw from
ConcMaxButtons == 1
ConcOps == {"none", "SendMessage", "SendInteractiveButtons", "SendAudioToWhatsApp"}
ConcResponses ==
  {NoResponse, TransportFailure}
  \cup [kind : {"http"}, status : {200, 400}, body : {BodyAccepted, BodyId1}, readOK : {TRUE}]
ConcScope ==
  /\ op \in ConcOps
  /\ args.body \in {"", "hello"}
  /\ args.menuType \in {"", "button"}
  /\ Len(args.buttons) <= ConcMaxButtons
  /\ args.filePath \in {"", "/tmp/voice.ogg"}
  /\ resp \in ConcResponses

NextConc ==
  \/ Next /\ ConcScope'
  \/ Switch

SpecConc == Init /\ [][NextConc]_vars

TypeOK ==
  /\ pc \in {"idle", "done", "panic", "SendMessage", "sendListMessage", "SendWhatsAppLocation",
             "uploadMedia", "sendWhatsAppMedia", "sendWhatsAppImage", "GetMediaURL", "DownloadMedia"}
  /\ resp \in Responses \cup {NoResponse}
  /\ fileOpen \in BOOLEAN
  /\ Len(requests) <= 2

\* ============================================================== properties
SendOps == {"SendMessage", "SendInteractiveList", "SendInteractiveButtons",
            "SendWhatsAppLocation", "SendAudioToWhatsApp", "SendImageToWhatsApp"}
MediaOps == {"SendAudioToWhatsApp", "SendImageToWhatsApp"}

\* the call has returned and its last response came from the send endpoint
\* (for audio and image: the response to the second request)
SendAnswered ==
  /\ pc = "done"
  /\ op \in SendOps
  /\ resp.kind = "http"
  /\ Len(requests) = (IF op \in MediaOps THEN 2 ELSE 1)

Is2xx(status) == status >= 200 /\ status < 300

\* C1: a send operation returns a nil error only if the response status is
\* 200 or 202.
C1_SuccessOnlyOn200Or202 ==
  (pc = "done" /\ op \in SendOps /\ result.err.isNil)
    => (resp.kind = "http" /\ resp.status \in {200, 202})

\* C2: a non-2xx answer of the send endpoint comes back as an error that
\* carries that status code and that response body, for every message kind
\* and every body.
C2_RejectionCarriesStatusAndBody ==
  (SendAnswered /\ resp.readOK /\ ~Is2xx(resp.status))
    => /\ ~result.err.isNil
       /\ result.err.hasStatus /\ result.err.status = resp.status
       /\ result.err.hasBody /\ result.err.body = resp.body

\* the functions that decode the response body as JSON
DecodingOps == {"SendMessage", "SendInteractiveList", "SendInteractiveButtons",
                "SendWhatsAppLocation", "SendAudioToWhatsApp", "GetMediaURL"}

\* a step of the finished call failed: nothing could be sent, the transport
\* failed, the platform answered outside 2xx, or the body did not decode
FailureOccurred ==
  \/ requests = <<>>
  \/ resp.kind = "neterr"
  \/ resp.kind = "http" /\ ~Is2xx(resp.status)
  \/ resp.kind = "http" /\ op \in DecodingOps /\ (~resp.readOK \/ ~IsValidJSON(resp.body))

\* C3: every failure of a dispatch, upload or resolve step reaches the
\* caller as a non-nil error.
C3_FailuresAreReturned ==
  (pc = "done" /\ FailureOccurred) => ~result.err.isNil

\* C4: no operation ends in a panic.
C4_NoPanic == pc # "panic"

\* the serialized action of an interactive-buttons request
ButtonsRequestSent ==
  /\ op = "SendInteractiveButtons"
  /\ args.menuType # "text"
  /\ Len(requests) = 1
SentAction == requests[1].payload.interactive.action

IsURLAction(a) == "parameters" \in DOMAIN a
HasReplyButtons(a) == "buttons" \in DOMAIN a
IsLocationRequest(a) == "name" \in DOMAIN a /\ a["name"] = "send_location"
SubKinds(a) ==
  {k \in {"url", "buttons", "location"} :
     \/ k = "url" /\ IsURLAction(a)
     \/ k = "buttons" /\ HasReplyButtons(a)
     \/ k = "location" /\ IsLocationRequest(a)}

\* C5: the serialized action of a non-"text" SendInteractiveButtons call
\* carries exactly one sub-kind (URL, reply buttons or location request),
\* and a URL action carries no reply buttons.
C5_ExactlyOneSubKind ==
  ButtonsRequestSent
    => /\ Cardinality(SubKinds(SentAction)) = 1
       /\ IsURLAction(SentAction) => ~HasReplyButtons(SentAction)

HasLink(btn) == btn.Link # ""
LinkIndexes(buttons) == {i \in 1..Len(buttons) : HasLink(buttons[i])}
LastLinkButton(buttons) ==
  buttons[CHOOSE i \in LinkIndexes(buttons) : \A j \in LinkIndexes(buttons) : j <= i]
LinkLess(btn) == btn.Link = ""
ExpectedReply(btn) == [type |-> btn.Type, reply |-> [id |-> btn.ID, title |-> btn.Text]]
ExpectedReplies(buttons) ==
  LET ll == SelectSeq(buttons, LinkLess)
  IN  [i \in 1..Len(ll) |-> ExpectedReply(ll[i])]
SentReplies(a) == IF HasReplyButtons(a) THEN a["buttons"] ELSE <<>>

\* C6: with at least one link-bearing button, the action's URL and display
\* text are those of the last link-bearing button and the reply buttons are
\* exactly the link-less buttons in input order.
C6_LastLinkWins ==
  (ButtonsRequestSent /\ LinkIndexes(args.buttons) # {})
    => /\ IsURLAction(SentAction)
       /\ SentAction["parameters"].url = LastLinkButton(args.buttons).Link
       /\ SentAction["parameters"].display_text = LastLinkButton(args.buttons).Text
       /\ SentReplies(SentAction) = ExpectedReplies(args.buttons)

\* two different link-bearing buttons, the later one after a link-less one
C6_Witness ==
  /\ ButtonsRequestSent
  /\ Len(args.buttons) = 3
  /\ HasLink(args.buttons[1]) /\ LinkLess(args.buttons[2]) /\ HasLink(args.buttons[3])
  /\ args.buttons[1].Link # args.buttons[3].Link
  /\ pc = "done"

\* C7: a "location_request_message" call sends the location-request marker
\* as the action's sub-kind, whatever the buttons.
C7_LocationRequestMarker ==
  (ButtonsRequestSent /\ args.menuType = "location_request_message")
    => IsLocationRequest(SentAction)

\* C8: SendInteractiveButtons with kind "text" issues the one request of
\* SendMessage(recipient, body), a Text payload without an interactive
\* field, and returns what SendMessage returns for the same response.
C8_TextPassThrough ==
  (op = "SendInteractiveButtons" /\ args.menuType = "text")
    => /\ pc \in {"SendMessage", "done"}
       /\ requests = (IF URLParses(apiURL)
                      THEN << [method |-> "POST", url |-> apiURL, contentType |-> "application/json",
                               authorization |-> [scheme |-> "Bearer", token |-> accessToken],
                               payload |-> [messaging_product |-> "whatsapp",
                                            recipient_type |-> "individual",
                                            to |-> args.to, type |-> "text",
                                            text |-> [body |-> args.body]]] >>
                      ELSE <<>>)
       /\ \A i \in 1..Len(requests) : "interactive" \notin DOMAIN requests[i].payload
       /\ pc = "done"
            => result = (IF requests = <<>> THEN Fail(Error("error creating request"))
                         ELSE SendMessageResult(resp))

C8_Witness ==
  /\ op = "SendInteractiveButtons"
  /\ args.menuType = "text"
  /\ args.buttons # <<>>
  /\ pc = "done"
  /\ result.err.isNil
  /\ result.ptr.value = AcceptedMessageResponse

FixedMime(o) == IF o = "SendAudioToWhatsApp" THEN "audio/ogg" ELSE "image/jpeg"
MediaIdSent(o, req) == IF o = "SendAudioToWhatsApp" THEN req.payload.audio.id ELSE req.payload.image.id
MediaTypeSent(o, req) == IF o = "SendAudioToWhatsApp" THEN "audio" ELSE "image"

\* C9: audio/image sends upload first with the fixed MIME type, send once and
\* only after a successful upload, reference exactly the uploaded ID, and
\* return that ID when both steps succeed.
C9_UploadThenSend ==
  op \in MediaOps
    => /\ Len(requests) <= 2
       /\ Len(requests) >= 1
            => /\ requests[1].contentType = "multipart/form-data"
               /\ requests[1].payload.type = FixedMime(op)
               /\ requests[1].payload.file = args.filePath
       /\ pc = "uploadMedia" => Len(requests) = 1
       /\ pc \in {"sendWhatsAppMedia", "sendWhatsAppImage"}
            => /\ Len(requests) = 2
               /\ resp.kind = "http" /\ Is2xx(resp.status)
               /\ mediaId = DecodeUploadResponse(resp.body).ID
       /\ Len(requests) = 2
            => /\ requests[2].payload.type = MediaTypeSent(op, requests[2])
               /\ MediaIdSent(op, requests[2]) = mediaId
               /\ requests[2].payload.to = args.to
       /\ (pc = "done" /\ result.err.isNil)
            => /\ Len(requests) = 2
               /\ result.id = MediaIdSent(op, requests[2])

C9_Witness ==
  /\ op = "SendAudioToWhatsApp"
  /\ pc = "done"
  /\ result.err.isNil
  /\ result.id = "m2"
  /\ Len(requests) = 2

\* the body is JSON of the shape {id: string}
HasStringId(body) == body \in {BodyId1, BodyId2}

\* C10: uploadMedia hands back an ID with a nil error only for a 2xx answer
\* whose body is JSON of the shape {id: string}; anything else is an error,
\* never an empty ID.
C10_UploadIdOnlyFromIdBody ==
  pc \in {"sendWhatsAppMedia", "sendWhatsAppImage"}
    => /\ resp.kind = "http" /\ Is2xx(resp.status)
       /\ HasStringId(resp.body)
       /\ mediaId # ""

\* the JSON message payloads this call has posted to the send endpoint
JSONRequests == {i \in 1..Len(requests) : requests[i].contentType = "application/json"}
UploadRequests == {i \in 1..Len(requests) : requests[i].contentType = "multipart/form-data"}

\* C11: every send payload carries messaging_product "whatsapp", and carries
\* recipient_type "individual" exactly when its kind is neither audio nor
\* image.
C11_RecipientTypeExceptMedia ==
  op \in SendOps
    => \A i \in JSONRequests :
         LET p == requests[i].payload IN
         /\ p.messaging_product = "whatsapp"
         /\ ("recipient_type" \in DOMAIN p) <=> (p.type \notin {"audio", "image"})
         /\ ("recipient_type" \in DOMAIN p) => p["recipient_type"] = "individual"

VariantFields == {"text", "audio", "image", "location", "interactive"}

\* C12: every serialized outbound payload has exactly one variant field, the
\* one its type names; a Text send has no interactive, audio, image or
\* location field.
C12_OneVariantField ==
  op \in SendOps
    => \A i \in JSONRequests :
         /\ requests[i].payload.type \in VariantFields
         /\ DOMAIN requests[i].payload \cap VariantFields = {requests[i].payload.type}

C12_Witness ==
  /\ op = "SendMessage"
  /\ pc = "done"
  /\ Len(requests) = 1
  /\ requests[1].payload.type = "text"
  /\ result.err.isNil

\* C13: the serialized location has the key name iff the supplied name is
\* non-empty and the key address iff the supplied address is non-empty.
C13_LocationOmitEmpty ==
  (op = "SendWhatsAppLocation" /\ Len(requests) = 1)
    => LET loc == requests[1].payload.location IN
       /\ ("name" \in DOMAIN loc) <=> (args.name # "")
       /\ ("address" \in DOMAIN loc) <=> (args.address # "")
       /\ ("name" \in DOMAIN loc) => loc["name"] = args.name
       /\ ("address" \in DOMAIN loc) => loc["address"] = args.address

\* a name without an address: the two keys are independent
C13_Witness ==
  /\ op = "SendWhatsAppLocation"
  /\ Len(requests) = 1
  /\ args.name # ""
  /\ args.address = ""
  /\ pc = "done"

SingleRequestOps == {"SendMessage", "SendInteractiveList", "SendInteractiveButtons",
                     "SendWhatsAppLocation", "GetMediaURL", "DownloadMedia"}

\* C14: no operation retries: at most one request per call, and for audio
\* and image at most one upload request and at most one send request,
\* whatever the outcome of a request.
C14_AtMostOnce ==
  /\ op \in SingleRequestOps => Len(requests) <= 1
  /\ op \in MediaOps
       => /\ Cardinality(UploadRequests) <= 1
          /\ Cardinality(JSONRequests) <= 1
          /\ Len(requests) <= 2

\* a transport failure and a rejection, each after a single request
C14_Witness ==
  /\ op = "SendMessage"
  /\ pc = "done"
  /\ resp.kind = "neterr"
  /\ Len(requests) = 1
  /\ ~result.err.isNil

\* C15: DownloadMedia returns the full body with a nil error for every
\* status code; it fails only when the request cannot be built, the
\* transport fails or the body read fails.
C15_DownloadIgnoresStatus ==
  (op = "DownloadMedia" /\ pc = "done")
    => /\ ~result.err.isNil
            <=> (\/ ~URLParses(args.url)
                 \/ resp.kind = "neterr"
                 \/ resp.kind = "http" /\ ~resp.readOK)
       /\ result.err.isNil
            => /\ resp.kind = "http"
               /\ result.hasBytes
               /\ result.bytes = resp.body

C15_Witness ==
  /\ op = "DownloadMedia"
  /\ pc = "done"
  /\ resp.kind = "http"
  /\ resp.status = 500
  /\ result.err.isNil
  /\ result.bytes = BodyHtml

\* C16 as stated: the file is closed on every exit path of the upload and
\* is already closed when the HTTP request is issued.
C16_ClosedBeforeRequest ==
  /\ pc \in {"idle", "done"} => ~fileOpen
  /\ (op \in MediaOps /\ Len(requests) >= 1) => ~fileOpen

\* C16 amended: the file is closed on every exit path of uploadMedia, by the
\* deferred Close that runs when uploadMedia returns; it is open while the
\* upload request is in flight.
C16_ClosedOnReturn ==
  /\ pc # "uploadMedia" => ~fileOpen
  /\ pc = "uploadMedia" => fileOpen

\* the file was opened, the upload was rejected, the call has returned
C16_Witness ==
  /\ op \in MediaOps
  /\ pc = "done"
  /\ Len(requests) = 1
  /\ resp.kind = "http"
  /\ resp.status = 400
  /\ ~fileOpen

\* the upload step of the response r failed
UploadFails(r) == ~uploadMediaResult(r).err.isNil

C18_NoIdWithError ==
  (op \in MediaOps /\ pc = "done")
    => /\ ~result.err.isNil => result.id = ""
       /\ Len(requests) = 0 => ~result.err.isNil
       /\ (Len(requests) = 1 /\ resp.kind # "none") => (UploadFails(resp) /\ ~result.err.isNil)

C18_NoSendAfterFailedUpload ==
  (pc = "uploadMedia" /\ pc' # "uploadMedia" /\ UploadFails(resp'))
    => (pc' = "done" /\ requests' = requests /\ ~result'.err.isNil /\ result'.id = "")

\* C18: when the upload step fails no send request is issued, and a call
\* that returns a non-nil error returns the empty ID, also when the error
\* comes from the send step after a successful upload.
C18_FailedUploadNoSend ==
  [](C18_NoIdWithError) /\ [][C18_NoSendAfterFailedUpload]_vars

\* the upload produced m1, the send was rejected, the caller gets ""
C18_Witness ==
  /\ op = "SendImageToWhatsApp"
  /\ pc = "done"
  /\ Len(requests) = 2
  /\ mediaId = "m1"
  /\ resp.status = 400
  /\ ~result.err.isNil
  /\ result.id = ""

\* what the frame f must have returned, from its own arguments and its own
\* last response
OwnResult(f) ==
  IF f.op = "SendMessage" \/ (f.op = "SendInteractiveButtons" /\ f.args.menuType = "text")
  THEN SendMessageResult(f.resp)
  ELSE IF f.op = "SendInteractiveButtons" THEN sendListMessageResult(f.resp)
  ELSE IF Len(f.requests) = 1 THEN Fail(uploadMediaResult(f.resp).err)
  ELSE MediaSendResult(f.mediaId, sendWhatsAppMediaResult(f.resp))

\* the requests and the result of the frame f are made of the client's
\* configuration, f's own arguments and f's own responses
FrameOwnsData(f) ==
  /\ \A i \in 1..Len(f.requests) :
       LET r == f.requests[i] IN
       /\ r.url = apiURL
       /\ r.authorization.token = accessToken
       /\ "to" \in DOMAIN r.payload => r.payload.to = f.args.to
       /\ "text" \in DOMAIN r.payload => r.payload.text.body = f.args.body
       /\ "interactive" \in DOMAIN r.payload
            => r.payload.interactive =
                 MarshalButtonsInteractive(f.args.menuType, f.args.body,
                                           BuildButtonAction(f.args.menuType, f.args.buttons))
       /\ "file" \in DOMAIN r.payload => r.payload.file = f.args.filePath
       /\ "audio" \in DOMAIN r.payload => r.payload.audio.id = f.mediaId
  /\ (f.pc = "done" /\ f.resp.kind # "none") => f.result = OwnResult(f)

C17_FramesOwnData == FrameOwnsData(Frame) /\ FrameOwnsData(parked)

\* C17: under any interleaving of two calls on one client no step writes
\* apiURL, accessToken, the transport handle or the context, and each call's
\* requests and result are made of its own arguments and its own responses.
C17_NoSharedMutableState ==
  [][UNCHANGED config]_vars /\ [](C17_FramesOwnData)

\* two calls with different recipients, one returned while the other is
\* still blocked in client.Do
C17_Witness ==
  /\ pc = "done"
  /\ op = "SendMessage"
  /\ result.err.isNil
  /\ parked.pc = "sendListMessage"
  /\ parked.args.to # args.to
  /\ Len(parked.requests) = 1

====
